---- MODULE Spec2Model ----
(***************************************************************************)
(* Model of anki-summarize-notes (src/anki_summarize_notes/__init__.py):   *)
(* the batch orchestrator _main, its wrapper main, and the helper batched. *)
(*                                                                         *)
(* The three external services are the environment.  Every call the        *)
(* program issues is appended to the log `calls`, together with whether     *)
(* the call returned (ok = TRUE) or raised an exception (ok = FALSE).       *)
(* A note-store response with a non-null "error" and a null "result" is     *)
(* only logged by AnkiConnectRequest.request (lines 87-89); for findNotes   *)
(* and notesInfo the null result is falsy like the empty list and is        *)
(* modelled as the empty sequence.                                         *)
(***************************************************************************)
EXTENDS Integers, Sequences, FiniteSets, TLC

\* ---------------------------------------------------------------- bounds
MaxNotes == 27
MaxLimit == 3
MaxMixed == 4

\* ------------------------------------------------------ program constants
BATCH_SIZE == 25

VARIABLES
    store,            \* notes matching the query in the note store (environment)
    args,             \* parsed command line: dry_run, limit_count (or unset)
    pc,               \* position of the control flow of main/_main
    note_ids,         \* result of findNotes
    note_infos,       \* result of notesInfo
    processed_count,
    bi,               \* number of batches taken from batched(note_infos, BATCH_SIZE)
    ni,               \* position of the inner loop in the current batch
    actions,          \* update actions staged for the current batch
    calls,            \* log of every external call issued so far
    exc,              \* an exception is propagating out of the try block
    ret,              \* how _main ended: "running", "None", "0", "raised"
    exit_status       \* process exit: "running", "0", "nonzero"

vars == <<store, args, pc, note_ids, note_infos, processed_count, bi, ni,
          actions, calls, exc, ret, exit_status>>

Min(a, b) == IF a <= b THEN a ELSE b

\* ------------------------------------------------------------ input data
\* A note as returned by notesInfo: its id and the value of its summary
\* field ("" signals that the note still needs a summary).
NoteInfo(id, summarized) ==
    [noteId |-> id, summary |-> IF summarized THEN "<p>old</p>" ELSE ""]

\* Which notes of a store of n notes already carry a summary: every pattern
\* for short stores, and for longer ones none, exactly one, or all of them.
SummarizedChoices(n) ==
    IF n <= MaxMixed
    THEN SUBSET (1..n)
    ELSE {{}} \cup {{i} : i \in 1..n} \cup {1..n}

Stores ==
    UNION {{[i \in 1..n |-> NoteInfo(i, i \in S)] : S \in SummarizedChoices(n)}
           : n \in 0..MaxNotes}

\* --limit-count is an int (argparse type=int, line 180) or absent (None).
LimitCounts == {-1} \cup (0..MaxLimit) \cup {BATCH_SIZE, BATCH_SIZE + 1}

Args ==
    {[dry_run |-> d, limit_given |-> TRUE, limit_count |-> l]
        : d \in BOOLEAN, l \in LimitCounts}
    \cup {[dry_run |-> d, limit_given |-> FALSE, limit_count |-> 0]
        : d \in BOOLEAN}

\* ------------------------------------------------------------- helpers
Call(action, arg, ok) == [action |-> action, arg |-> arg, ok |-> ok]

\* Variant of batched that yields full tuples only and drops the remainder.
RECURSIVE batched_full_only(_, _)
batched_full_only(iterable, n) ==
    IF Len(iterable) < n
    THEN <<>>
    ELSE <<SubSeq(iterable, 1, n)>>
         \o batched_full_only(SubSeq(iterable, n + 1, Len(iterable)), n)

\* batched(iterable, n): tuples of length n, the last one may be shorter.
RECURSIVE batched(_, _)
batched(iterable, n) ==
    IF iterable = <<>>
    THEN <<>>
    ELSE LET batch == SubSeq(iterable, 1, Min(n, Len(iterable)))
         IN  <<batch>> \o batched(SubSeq(iterable, Len(batch) + 1, Len(iterable)), n)

\* Variant of limit_reached that compares with > instead of >=.
limit_exceeded ==
    /\ args.limit_given
    /\ args.limit_count # 0
    /\ processed_count > args.limit_count

\* `args.limit_count and processed_count >= args.limit_count`: None and 0
\* are both falsy in Python.
limit_reached ==
    /\ args.limit_given
    /\ args.limit_count # 0
    /\ processed_count >= args.limit_count

\* Variant of summary_present that never skips a note.
summary_never_present(note_info) == FALSE

\* `if summary:` - a non-empty summary field value.
summary_present(note_info) == note_info.summary # ""

\* Variant of no_notes without the early return.
no_notes_never(ids) == FALSE

\* `if not note_ids:` - the empty list and null are both falsy.
no_notes(ids) == ids = <<>>

\* The update_action built for a note.
update_action(note_info) ==
    [action |-> "updateNoteFields", id |-> note_info.noteId]

\* Variant of stage that ignores --dry-run.
stage_always(acts, note_info) == Append(acts, update_action(note_info))

\* In dry-run mode the update is only logged, otherwise it is appended.
stage(acts, note_info) ==
    IF args.dry_run THEN acts ELSE Append(acts, update_action(note_info))

\* Variant of fresh_actions that keeps the list of the previous batch.
stale_actions == actions

\* `actions = []` at the start of every batch.
fresh_actions == <<>>

\* Variant of RaiseInTry without the finally clause.
RaiseSkippingFinally ==
    /\ pc' = "returned"
    /\ exc' = TRUE
    /\ ret' = "raised"

\* Variant of RaiseInTry that swallows the exception and repeats the step.
RaiseRetried ==
    /\ pc' = pc
    /\ exc' = FALSE
    /\ ret' = ret

\* An exception raised inside the try block runs the finally clause.
RaiseInTry ==
    /\ pc' = "sync_after"
    /\ exc' = TRUE
    /\ ret' = ret

\* An exception raised outside the try block leaves _main at once.
RaiseOutsideTry ==
    /\ pc' = "returned"
    /\ ret' = "raised"

Batches == batched(note_infos, BATCH_SIZE)

\* ---------------------------------------------------------------- Init
Init ==
    /\ store \in Stores
    /\ args \in Args
    /\ pc = "sync_before"
    /\ note_ids = <<>>
    /\ note_infos = <<>>
    /\ processed_count = 0
    /\ bi = 0
    /\ ni = 0
    /\ actions = <<>>
    /\ calls = <<>>
    /\ exc = FALSE
    /\ ret = "running"
    /\ exit_status = "running"

\* ------------------------------------------------------------- actions
\* anki_sync() before anything else.
SyncBefore ==
    /\ pc = "sync_before"
    /\ \E ok \in BOOLEAN :
        /\ calls' = Append(calls, Call("sync", <<>>, ok))
        /\ IF ok THEN pc' = "findNotes" /\ ret' = ret ELSE RaiseOutsideTry
    /\ UNCHANGED <<store, args, note_ids, note_infos, processed_count, bi, ni,
                   actions, exc, exit_status>>

\* findNotes; an empty or null result returns 0.
FindNotes ==
    /\ pc = "findNotes"
    /\ \E outcome \in {"ok", "error", "raise"} :
        /\ calls' = Append(calls, Call("findNotes", <<>>, outcome # "raise"))
        /\ IF outcome = "raise"
           THEN RaiseOutsideTry /\ note_ids' = note_ids
           ELSE LET result == IF outcome = "ok"
                              THEN [i \in 1..Len(store) |-> store[i].noteId]
                              ELSE <<>>
                IN  /\ note_ids' = result
                    /\ IF no_notes(result)
                       THEN pc' = "returned" /\ ret' = "0"
                       ELSE pc' = "notesInfo" /\ ret' = ret
    /\ UNCHANGED <<store, args, note_infos, processed_count, bi, ni, actions,
                   exc, exit_status>>

\* notesInfo; processed_count = 0; the loop and the final sync only run for
\* a truthy result.
NotesInfo ==
    /\ pc = "notesInfo"
    /\ \E outcome \in {"ok", "error", "raise"} :
        /\ calls' = Append(calls, Call("notesInfo", note_ids, outcome # "raise"))
        /\ IF outcome = "raise"
           THEN RaiseOutsideTry /\ UNCHANGED <<note_infos, processed_count>>
           ELSE LET result == IF outcome = "ok" THEN store ELSE <<>>
                IN  /\ note_infos' = result
                    /\ processed_count' = 0
                    /\ IF result # <<>>
                       THEN pc' = "batch" /\ ret' = ret
                       ELSE pc' = "returned" /\ ret' = "None"
    /\ UNCHANGED <<store, args, note_ids, bi, ni, actions, exc, exit_status>>

\* Head of `for batch in batched(note_infos, BATCH_SIZE)`.
BatchHead ==
    /\ pc = "batch"
    /\ IF bi >= Len(Batches) \/ limit_reached
       THEN /\ pc' = "sync_after"
            /\ UNCHANGED <<bi, ni, actions>>
       ELSE /\ bi' = bi + 1
            /\ actions' = fresh_actions
            /\ ni' = 1
            /\ pc' = "note"
    /\ UNCHANGED <<store, args, note_ids, note_infos, processed_count, calls,
                   exc, ret, exit_status>>

\* One iteration of `for note_info in batch`.
NoteStep ==
    /\ pc = "note"
    /\ LET batch == Batches[bi] IN
       IF ni > Len(batch) \/ limit_reached
       THEN /\ pc' = "multi"
            /\ UNCHANGED <<processed_count, ni, actions, calls, exc, ret>>
       ELSE LET note_info == batch[ni] IN
            IF summary_present(note_info)
            THEN /\ ni' = ni + 1
                 /\ UNCHANGED <<pc, processed_count, actions, calls, exc, ret>>
            ELSE /\ processed_count' = processed_count + 1
                 /\ \E outcome \in {"ok", "extract_raises", "summarize_raises"} :
                     LET extract == Call("extract", <<note_info.noteId>>,
                                         outcome # "extract_raises")
                         summarize == Call("summarize", <<note_info.noteId>>,
                                           outcome # "summarize_raises")
                     IN  CASE outcome = "extract_raises" ->
                                /\ calls' = Append(calls, extract)
                                /\ RaiseInTry
                                /\ UNCHANGED <<ni, actions>>
                           [] outcome = "summarize_raises" ->
                                /\ calls' = calls \o <<extract, summarize>>
                                /\ RaiseInTry
                                /\ UNCHANGED <<ni, actions>>
                           [] outcome = "ok" ->
                                /\ calls' = calls \o <<extract, summarize>>
                                /\ actions' = stage(actions, note_info)
                                /\ ni' = ni + 1
                                /\ UNCHANGED <<pc, exc, ret>>
    /\ UNCHANGED <<store, args, note_ids, note_infos, bi, exit_status>>

\* The bulk "multi" call that ends a batch.
Multi ==
    /\ pc = "multi"
    /\ \E ok \in BOOLEAN :
        /\ calls' = Append(calls, Call("multi", actions, ok))
        /\ IF ok
           THEN pc' = "batch" /\ UNCHANGED <<exc, ret>>
           ELSE RaiseInTry
    /\ UNCHANGED <<store, args, note_ids, note_infos, processed_count, bi, ni,
                   actions, exit_status>>

\* finally: anki_sync(); then the pending exception, if any, propagates.
SyncAfter ==
    /\ pc = "sync_after"
    /\ \E ok \in BOOLEAN :
        /\ calls' = Append(calls, Call("sync", <<>>, ok))
        /\ ret' = IF exc \/ ~ok THEN "raised" ELSE "None"
    /\ pc' = "returned"
    /\ UNCHANGED <<store, args, note_ids, note_infos, processed_count, bi, ni,
                   actions, exc, exit_status>>

\* main(): sys.exit(rc) for a non-None rc; an exception is re-raised unless
\* ANKI_SUMMARIZE_NOTES_DEBUG asks for a post-mortem session.
MainExit ==
    /\ pc = "returned"
    /\ pc' = "exited"
    /\ \E debug \in BOOLEAN :
        exit_status' = IF ret = "raised" /\ ~debug THEN "nonzero" ELSE "0"
    /\ UNCHANGED <<store, args, note_ids, note_infos, processed_count, bi, ni,
                   actions, calls, exc, ret>>

Next ==
    \/ SyncBefore
    \/ FindNotes
    \/ NotesInfo
    \/ BatchHead
    \/ NoteStep
    \/ Multi
    \/ SyncAfter
    \/ MainExit

Spec == Init /\ [][Next]_vars

TypeOK ==
    /\ pc \in {"sync_before", "findNotes", "notesInfo", "batch", "note",
               "multi", "sync_after", "returned", "exited"}
    /\ processed_count \in 0..MaxNotes
    /\ ret \in {"running", "None", "0", "raised"}
    /\ exit_status \in {"running", "0", "nonzero"}
\* ------------------------------------------------- vocabulary of the claims
Terminated == pc \in {"returned", "exited"}

CallIdx(a) == {i \in 1..Len(calls) : calls[i].action = a}

NumMulti == Cardinality(CallIdx("multi"))

\* Number of bulk calls issued before the call at position j of the log.
MultisBefore(j) == Cardinality({i \in CallIdx("multi") : i < j})

\* The calls addressed to the note store, in order.
NoteStoreCalls ==
    SelectSeq(calls, LAMBDA c : c.action \in {"sync", "findNotes", "notesInfo", "multi"})

\* Position in note_infos of the note with the given id.
Pos(id) == CHOOSE i \in 1..Len(note_infos) : note_infos[i].noteId = id

Ceil(n, b) == (n + b - 1) \div b

\* A call of the batch loop raised.
NoteFailed ==
    \E i \in 1..Len(calls) :
        calls[i].action \in {"extract", "summarize"} /\ ~calls[i].ok

\* The run ended normally after the batch loop.
FailureFree ==
    /\ Terminated
    /\ ret = "None"
    /\ note_infos # <<>>
    /\ \A i \in 1..Len(calls) : calls[i].ok

\* ---------------------------------------------------------------- C1
\* C1 as stated: in every terminated run in which the first sync returned,
\* the first note-store call is a sync and the last call of the run is a
\* second sync.
C1_Original ==
    (Terminated /\ calls[1].ok) =>
        /\ Len(NoteStoreCalls) >= 2
        /\ NoteStoreCalls[1].action = "sync"
        /\ calls[Len(calls)].action = "sync"

\* C1 (amended): a run in which notesInfo returned a non-empty list (the
\* batch loop was entered) terminates with exactly two sync calls, the first
\* and the last call of the run, whatever raised in the loop; a run that
\* ends before the loop (no notes, empty notesInfo result, findNotes or
\* notesInfo raising) issues the first sync only.
C1_SyncAround ==
    /\ pc \in {"batch", "note", "multi", "sync_after"} => note_infos # <<>>
    /\ (Terminated /\ note_infos # <<>>) =>
        /\ Len(calls) >= 4
        /\ calls[1].action = "sync"
        /\ calls[Len(calls)].action = "sync"
        /\ CallIdx("sync") = {1, Len(calls)}
    /\ (Terminated /\ note_infos = <<>>) =>
        /\ calls[1].action = "sync"
        /\ CallIdx("sync") = {1}

\* A run whose batch loop raised and that ended with the second sync.
C1_Witness ==
    /\ pc = "returned"
    /\ exc
    /\ NoteFailed
    /\ calls[Len(calls)].action = "sync"
    /\ Len(calls) >= 4

\* ---------------------------------------------------------------- C2
\* C2 as stated: for a non-negative --limit-count, processed_count never
\* exceeds the limit.
C2_Original ==
    (args.limit_given /\ args.limit_count >= 0) =>
        processed_count <= args.limit_count

\* ---------------------------------------------------------------- C3
\* C3: every extraction call, summarization call, staged action and
\* submitted action is for a note whose summary field was empty, and
\* processed_count counts exactly the extraction calls.
C3_SkipSummarized ==
    /\ \A i \in 1..Len(calls) :
        /\ calls[i].action \in {"extract", "summarize"} =>
              note_infos[Pos(calls[i].arg[1])].summary = ""
        /\ calls[i].action = "multi" =>
              \A j \in 1..Len(calls[i].arg) :
                  note_infos[Pos(calls[i].arg[j].id)].summary = ""
    /\ \A j \in 1..Len(actions) : note_infos[Pos(actions[j].id)].summary = ""
    /\ processed_count = Cardinality(CallIdx("extract"))

\* A finished run that met a summarized note first and processed a later one.
C3_Witness ==
    /\ FailureFree
    /\ Len(note_infos) >= 2
    /\ note_infos[1].summary # ""
    /\ processed_count >= 1
    /\ NumMulti >= 1

\* ---------------------------------------------------------------- C4
\* C4: in dry-run mode nothing is staged and every bulk call carries an
\* empty action list, while processed_count still counts the notes that
\* were extracted.
C4_DryRunStagesNothing ==
    args.dry_run =>
        /\ actions = <<>>
        /\ \A i \in CallIdx("multi") : calls[i].arg = <<>>
        /\ processed_count = Cardinality(CallIdx("extract"))

\* A finished dry run that summarized two notes and issued a bulk call.
C4_Witness ==
    /\ args.dry_run
    /\ FailureFree
    /\ processed_count >= 2
    /\ Cardinality(CallIdx("summarize")) >= 2
    /\ NumMulti >= 1
\* ------------------------------------------ closed forms used by C5 - C10
\* Positions of note_infos that form the k-th batch.
BatchRange(k) ==
    ((k - 1) * BATCH_SIZE + 1) .. Min(k * BATCH_SIZE, Len(note_infos))

\* Number of notes without a summary among the first p notes.
UnsumUpTo(p) ==
    Cardinality({i \in 1..Min(p, Len(note_infos)) : note_infos[i].summary = ""})

\* --limit-count was given and is not zero.
LimitActive == args.limit_given /\ args.limit_count # 0

\* Ids of the notes without a summary, in original order.
UnsumIds ==
    LET unsum == SelectSeq(note_infos, LAMBDA n : n.summary = "")
    IN  [a \in 1..Len(unsum) |-> unsum[a].noteId]

\* Ids of the notes an extraction call was issued for, in call order.
ExtractedIds ==
    LET ex == SelectSeq(calls, LAMBDA c : c.action = "extract")
    IN  [a \in 1..Len(ex) |-> ex[a].arg[1]]

MultiCalls == SelectSeq(calls, LAMBDA c : c.action = "multi")

RECURSIVE Flatten(_)
Flatten(seqs) ==
    IF seqs = <<>> THEN <<>> ELSE Head(seqs) \o Flatten(Tail(seqs))

\* All update actions carried by the bulk calls issued so far.
Submitted == Flatten([k \in 1..Len(MultiCalls) |-> MultiCalls[k].arg])

\* ---------------------------------------------------------------- C5
\* C5 as stated, for an unset or non-negative limit: a failure-free run over
\* N >= 1 notes issues exactly ceil(N/B) bulk calls.
C5_Original ==
    (FailureFree /\ args.limit_count >= 0) =>
        NumMulti = Ceil(Len(note_infos), BATCH_SIZE)

\* C5 (amended): a failure-free run over N >= 1 notes issues ceil(N/B) bulk
\* calls when --limit-count is unset or 0; with a non-zero limit it issues
\* one call per batch at whose start fewer notes than the limit had been
\* processed, hence at most ceil(N/B).  Every call covers notes of one batch
\* of at most B consecutive notes.
C5_BulkCallCount ==
    FailureFree =>
        LET NB == Ceil(Len(note_infos), BATCH_SIZE) IN
        /\ NumMulti =
              IF LimitActive
              THEN Cardinality({k \in 1..NB :
                        UnsumUpTo((k - 1) * BATCH_SIZE) < args.limit_count})
              ELSE NB
        /\ NumMulti <= NB
        /\ \A i \in CallIdx("multi") : Len(calls[i].arg) <= BATCH_SIZE
        /\ \A j \in CallIdx("extract") :
              Pos(calls[j].arg[1]) \in BatchRange(MultisBefore(j) + 1)

\* A failure-free run that stopped at the limit before the second batch.
C5_Witness ==
    /\ FailureFree
    /\ LimitActive
    /\ NumMulti = 1
    /\ Ceil(Len(note_infos), BATCH_SIZE) = 2
    /\ processed_count = args.limit_count

\* ---------------------------------------------------------------- C6
\* C6 as stated, for a non-negative limit L: a failure-free run over M
\* unsummarized notes processes the first min(L, M) of them (all M when the
\* limit is unset), and without dry-run the bulk calls carry processed_count
\* actions in total.
C6_Original ==
    (FailureFree /\ args.limit_count >= 0) =>
        LET M == Len(UnsumIds)
            want == IF args.limit_given THEN Min(args.limit_count, M) ELSE M
        IN  /\ processed_count = want
            /\ ExtractedIds = SubSeq(UnsumIds, 1, want)
            /\ ~args.dry_run => Len(Submitted) = processed_count

\* ---------------------------------------------------------------- C7
\* C7: when findNotes returns an empty or null result, _main returns 0 with
\* the first sync and findNotes as its only calls, and the process exits
\* with status 0.
C7_EmptySearch ==
    (\E i \in CallIdx("findNotes") : calls[i].ok /\ note_ids = <<>>) =>
        /\ Terminated
        /\ ret = "0"
        /\ Len(calls) = 2
        /\ calls[1].action = "sync"
        /\ CallIdx("notesInfo") \cup CallIdx("extract")
              \cup CallIdx("summarize") \cup CallIdx("multi") = {}
        /\ pc = "exited" => exit_status = "0"

\* The process has exited after a search that found nothing.
C7_Witness ==
    /\ pc = "exited"
    /\ ret = "0"
    /\ exit_status = "0"
    /\ CallIdx("findNotes") # {}

\* ---------------------------------------------------------------- C8
\* C8: once an extraction, summarization or bulk call has raised, nothing
\* but the final sync is called any more, and _main ends by raising.
C8_FailureAborts ==
    \A i \in 1..Len(calls) :
        (calls[i].action \in {"extract", "summarize", "multi"} /\ ~calls[i].ok) =>
            /\ pc \in {"sync_after", "returned", "exited"}
            /\ exc
            /\ Len(calls) <= i + 1
            /\ Len(calls) = i + 1 => calls[i + 1].action = "sync"
            /\ Terminated => (Len(calls) = i + 1 /\ ret = "raised")

\* Summarization raised with notes and a batch still to come.
C8_Witness ==
    /\ pc = "returned"
    /\ ret = "raised"
    /\ \E i \in CallIdx("summarize") :
          /\ ~calls[i].ok
          /\ Pos(calls[i].arg[1]) < BATCH_SIZE
    /\ Len(note_infos) > BATCH_SIZE
    /\ NumMulti = 0

\* ---------------------------------------------------------------- C9
\* What every bulk call carries: the k-th bulk call carries, in original
\* note order and once per note, the update actions of the notes summarized
\* since the previous bulk call (none in dry-run mode), and every
\* extraction and summarization call for a note of batch k is issued after
\* bulk call k-1 and before bulk call k.
C9_Content ==
    LET tagged == [j \in 1..Len(calls) |->
                      [c |-> calls[j], batch |-> MultisBefore(j) + 1]]
        processedIn(k) ==
            SelectSeq(tagged, LAMBDA t :
                t.c.action = "summarize" /\ t.c.ok /\ t.batch = k)
    IN  /\ \A k \in 1..Len(MultiCalls) :
            LET arg == MultiCalls[k].arg IN
            /\ Len(arg) = IF args.dry_run THEN 0 ELSE Len(processedIn(k))
            /\ \A a \in 1..Len(arg) :
                  /\ arg[a].action = "updateNoteFields"
                  /\ arg[a].id = processedIn(k)[a].c.arg[1]
            /\ \A a, b \in 1..Len(arg) :
                  a < b => Pos(arg[a].id) < Pos(arg[b].id)
        /\ \A j \in CallIdx("extract") \cup CallIdx("summarize") :
              Pos(calls[j].arg[1]) \in BatchRange(tagged[j].batch)

\* C9 as stated: every batch that was entered has got its bulk call when the
\* run is over.
C9_Original ==
    /\ C9_Content
    /\ Terminated => NumMulti = bi

\* C9 (amended): every entered batch whose notes were all handled without an
\* exception ends with exactly one bulk call, also when nothing is staged; a
\* batch in which extraction or summarization raised gets none.
C9_BatchEndsWithMulti ==
    /\ C9_Content
    /\ NumMulti = IF pc \in {"note", "multi"} \/ NoteFailed THEN bi - 1 ELSE bi

\* Two batches, the first submitted with actions, the second with none.
C9_Witness ==
    /\ FailureFree
    /\ ~args.dry_run
    /\ bi = 2
    /\ Len(MultiCalls) = 2
    /\ Len(MultiCalls[1].arg) >= 2
    /\ MultiCalls[2].arg = <<>>

\* ---------------------------------------------------------------- C10
\* The actions a completed k-th batch stages: one per note without a
\* summary, as far as the limit allows.
ExpectedStaged(k) ==
    LET lo == (k - 1) * BATCH_SIZE + 1
        hi == Min(k * BATCH_SIZE, Len(note_infos))
        unsum == SelectSeq(SubSeq(note_infos, lo, hi), LAMBDA n : n.summary = "")
        room == args.limit_count - UnsumUpTo(lo - 1)
        take == IF args.dry_run THEN 0
                ELSE IF LimitActive THEN Min(Len(unsum), IF room < 0 THEN 0 ELSE room)
                ELSE Len(unsum)
    IN  [a \in 1..take |-> [action |-> "updateNoteFields", id |-> unsum[a].noteId]]

\* C10: at every point the submitted actions are exactly the staged actions
\* of the batches whose bulk call was issued; the actions staged in a batch
\* without a bulk call (open, or aborted by a raising extraction or
\* summarization) are in no bulk call, although their notes are counted in
\* processed_count.
C10_BatchGranularity ==
    LET open == pc \in {"note", "multi"} \/ NoteFailed
        pending == IF open THEN actions ELSE <<>>
    IN  /\ Submitted = Flatten([k \in 1..NumMulti |-> ExpectedStaged(k)])
        /\ \A a \in 1..Len(pending) : \A s \in 1..Len(Submitted) :
              Submitted[s].id # pending[a].id
        /\ ~args.dry_run =>
              processed_count = Len(Submitted) + Len(pending)
                                + (IF NoteFailed THEN 1 ELSE 0)

\* The second batch raised after staging an action; the first was submitted.
C10_Witness ==
    /\ Terminated
    /\ NoteFailed
    /\ bi = 2
    /\ Len(actions) >= 1
    /\ Len(Submitted) >= BATCH_SIZE - 1
    /\ NumMulti = 1
====
